---- MODULE Spec2Model ----
(***************************************************************************)
(* A model of two parts of the document-database backend:                  *)
(*   - internal/backends/postgresql/collection.go: the collection adapter  *)
(*     (Query, InsertAll, UpdateAll, DeleteAll, Explain, Stats, Compact,   *)
(*     ListIndexes, CreateIndexes, DropIndexes);                           *)
(*   - internal/clientconn/cursor/cursor.go: the cursor (newCursor, Next,  *)
(*     Close) and the registry it lives in.                                *)
(* A statement is a sequence of tokens; a positional marker $k is the      *)
(* token Ph(k).  The collaborators whose code is not in these files (the   *)
(* metadata registry, the clause compilers, the transaction helper, the    *)
(* cursor registry) are modelled from their documented contracts.          *)
(***************************************************************************)
EXTENDS Integers, Sequences, FiniteSets, TLC

VARIABLES
    dbExists,   \* metadata: DatabaseGetExisting returns a handle (TRUE) or nil
    coll,       \* metadata: CollectionGet's answer, NoColl when absent
    rows,       \* the collection's table: a set of rows [id, v, rid]
    last,       \* the collection operation that has just returned: parameters, calls, outcome
    pre,        \* the database, collection and rows as that operation found them
    m,          \* the cursor registry's directory: the cursors it holds
    cursors,    \* every cursor created so far, by identifier
    lastCursorID, \* the registry's identifier counter
    tracked,    \* resource tracking: the cursors whose token is tracked
    pc,         \* per caller: the step it is at
    ref,        \* per caller: the cursor it holds (0: none)
    loc,        \* per caller: the iterator reference Next has loaded
    hist,       \* per cursor: what has been done to it so far
    now         \* the clock time.Now() reads

collVars == <<dbExists, coll, rows, last, pre>>
cursorVars == <<m, cursors, lastCursorID, tracked, pc, ref, loc, hist, now>>
vars == <<dbExists, coll, rows, last, pre, m, cursors, lastCursorID, tracked, pc, ref, loc, hist, now>>

(***************************************************************************)
(* Bounds of the model.                                                    *)
(***************************************************************************)
MaxFilter == 2      \* filter documents have at most this many fields
MaxSort == 2        \* sort documents have at most this many fields
MaxIDs == 2         \* DeleteAll and UpdateAll get at most this many identifiers
MaxBatches == 3     \* InsertAll gets documents for at most this many batches
MaxPhys == 2        \* Stats reads at most this many physical index rows
MaxCursors == 2     \* cursors created in one behaviour
MaxCallers == 2     \* goroutines using the cursors at once (a consumer, a closer, ...)
MaxTime == 3        \* the clock stops here
IdleBound == 1      \* the idle sweep's configured bound
MaxColls == 2       \* listCollections finds at most this many collections

(***************************************************************************)
(* Errors.  Nil is Go's nil error; the others are the kinds the adapter    *)
(* returns: a lazyerrors wrapper (generic) or a backends.Error code.       *)
(***************************************************************************)
Nil == "nil"
ErrLazy == "lazyerror"
ErrorCodeInsertDuplicateID == "ErrorCodeInsertDuplicateID"
ErrorCodeCollectionDoesNotExist == "ErrorCodeCollectionDoesNotExist"
ErrorCodeDatabaseDoesNotExist == "ErrorCodeDatabaseDoesNotExist"

\* What the storage engine reports for a failed statement.
UniqueViolation == "UniqueViolation"
OtherFailure == "OtherFailure"
SyntaxError == "SyntaxError"

NoFail == [call |-> "none", n |-> 0]
FailAt(c) == [call |-> c, n |-> 1]

\* One entry of an operation's log of collaborator calls.
Called(c, ok) == [call |-> c, ok |-> ok, why |-> IF ok THEN Nil ELSE OtherFailure]
\* A statement the engine refused, with what it reported.
Refused(c, why) == [call |-> c, ok |-> FALSE, why |-> why]
\* A call that succeeded, with what the engine answered.
Answered(c, out) == [call |-> c, ok |-> TRUE, why |-> Nil, out |-> out]

NoColl == [exists |-> FALSE, TableName |-> "", capped |-> FALSE, Indexes |-> <<>>]

(***************************************************************************)
(* Statements.                                                             *)
(***************************************************************************)
Tok(s) == [s |-> s, n |-> 0]
Ph(k) == [s |-> "$", n |-> k]
IsPh(t) == t.s = "$"

ArgVal(x) == [kind |-> "value", s |-> "", n |-> x]
ArgField(f) == [kind |-> "field", s |-> f, n |-> 0]
ArgLimit(x) == [kind |-> "limit", s |-> "", n |-> x]
ArgID(x) == [kind |-> "id", s |-> "", n |-> x]
ArgRecordID(x) == [kind |-> "recordID", s |-> "", n |-> x]

\* metadata.Placeholder: Next increments the counter and returns its marker.
PlaceholderNext(p) == [marker |-> Ph(p + 1), p |-> p + 1]

\* prepareSelectClause: the comment (when there is one), then the projection.
prepareSelectClause(sp) ==
    (IF sp.Comment = "" THEN <<>> ELSE <<Tok("/*"), Tok(sp.Comment), Tok("*/")>>)
    \o <<Tok("SELECT")>>
    \o (IF sp.OnlyRecordIDs THEN <<Tok("_ferretdb_record_id")>>
        ELSE IF sp.Capped THEN <<Tok("_ferretdb_record_id"), Tok("_jsonb")>>
        ELSE <<Tok("_jsonb")>>)
    \o <<Tok("FROM"), Tok(sp.Schema), Tok(sp.Table)>>

\* The fields of a filter, in order: one parameterized comparison each.
RECURSIVE WhereItems(_, _)
WhereItems(p, filter) ==
    IF filter = <<>> THEN [q |-> <<>>, args |-> <<>>, p |-> p]
    ELSE LET ph == PlaceholderNext(p)
             rest == WhereItems(ph.p, Tail(filter))
         IN [q |-> <<Tok(Head(filter).field), Tok("="), ph.marker>>
                    \o (IF Tail(filter) = <<>> THEN <<>> ELSE <<Tok("AND")>>) \o rest.q,
             args |-> <<ArgVal(Head(filter).value)>> \o rest.args,
             p |-> rest.p]

\* prepareWhereClause: an error for a value that cannot be encoded; an empty
\* fragment (no pushdown) for an empty filter or one with an unsupported shape.
prepareWhereClause(p, filter) ==
    IF \E i \in 1..Len(filter) : filter[i].kind = "invalid"
    THEN [q |-> <<>>, args |-> <<>>, p |-> p, err |-> ErrLazy]
    ELSE IF filter = <<>> \/ \E i \in 1..Len(filter) : filter[i].kind = "unsupported"
    THEN [q |-> <<>>, args |-> <<>>, p |-> p, err |-> Nil]
    ELSE LET w == WhereItems(p, filter)
         IN [q |-> <<Tok("WHERE")>> \o w.q, args |-> w.args, p |-> w.p, err |-> Nil]

RECURSIVE OrderItems(_, _)
OrderItems(p, sort) ==
    IF sort = <<>> THEN [q |-> <<>>, args |-> <<>>, p |-> p]
    ELSE LET ph == PlaceholderNext(p)
             rest == OrderItems(ph.p, Tail(sort))
         IN [q |-> <<Tok("_jsonb->"), ph.marker,
                     Tok(IF Head(sort).Descending THEN "DESC" ELSE "ASC")>> \o rest.q,
             args |-> <<ArgField(Head(sort).Field)>> \o rest.args,
             p |-> rest.p]

\* prepareOrderByClause: the sort fields in order, then, for a capped
\* collection, the record identifier as the tie-break.
prepareOrderByClause(p, sort, capped) ==
    LET o == OrderItems(p, sort)
        tie == IF capped THEN <<Tok("_ferretdb_record_id")>> ELSE <<>>
    IN IF sort = <<>> /\ ~capped THEN [q |-> <<>>, args |-> <<>>, p |-> p]
       ELSE [q |-> <<Tok("ORDER BY")>> \o o.q \o tie, args |-> o.args, p |-> o.p]

(***************************************************************************)
(* The outcome of one operation.                                           *)
(***************************************************************************)
Outcome(op, params, calls, sent, err, res) ==
    [op |-> op, params |-> params, calls |-> calls, sent |-> sent, err |-> err, res |-> res]

NoRes == [none |-> TRUE]
Stmt(kind, q, args) == [kind |-> kind, q |-> q, args |-> args]

\* Query, lines 77-102: SELECT, WHERE, ORDER BY and LIMIT share one placeholder.
QueryLimitBadMarker(c, params) ==
    LET sel == prepareSelectClause([Schema |-> "db", Table |-> c.TableName,
                   Comment |-> params.Comment, Capped |-> c.capped,
                   OnlyRecordIDs |-> params.OnlyRecordIDs])
        w == prepareWhereClause(0, params.Filter)
        o == prepareOrderByClause(w.p, params.Sort, c.capped)
        l == PlaceholderNext(0)
    IN [q |-> sel \o w.q \o o.q
               \o (IF params.Limit # 0 THEN <<Tok("LIMIT"), l.marker>> ELSE <<>>),
        args |-> w.args \o o.args
               \o (IF params.Limit # 0 THEN <<ArgLimit(params.Limit)>> ELSE <<>>),
        err |-> w.err]

QueryStmt(c, params) ==
    LET sel == prepareSelectClause([Schema |-> "db", Table |-> c.TableName,
                   Comment |-> params.Comment, Capped |-> c.capped,
                   OnlyRecordIDs |-> params.OnlyRecordIDs])
        w == prepareWhereClause(0, params.Filter)
        o == prepareOrderByClause(w.p, params.Sort, c.capped)
        l == PlaceholderNext(o.p)
    IN [q |-> sel \o w.q \o o.q
               \o (IF params.Limit # 0 THEN <<Tok("LIMIT"), l.marker>> ELSE <<>>),
        args |-> w.args \o o.args
               \o (IF params.Limit # 0 THEN <<ArgLimit(params.Limit)>> ELSE <<>>),
        err |-> w.err]

NilIter == [rows |-> "nil"]
RowsIter == [rows |-> "engine"]

\* Query, lines 60-64 and 71-75: an absent database or collection.
QueryAbsentAsError(calls, params) ==
    Outcome("Query", params, calls, <<>>, ErrorCodeCollectionDoesNotExist, NoRes)

QueryAbsent(calls, params) ==
    Outcome("Query", params, calls, <<>>, Nil, [Iter |-> NilIter])

\* Query, lines 54-112.
QueryOutcome(db, c, params, fail) ==
    IF fail.call = "DatabaseGetExisting"
    THEN Outcome("Query", params, <<Called("DatabaseGetExisting", FALSE)>>, <<>>, ErrLazy, NoRes)
    ELSE IF ~db
    THEN QueryAbsent(<<Called("DatabaseGetExisting", TRUE)>>, params)
    ELSE IF fail.call = "CollectionGet"
    THEN Outcome("Query", params,
                 <<Called("DatabaseGetExisting", TRUE), Called("CollectionGet", FALSE)>>,
                 <<>>, ErrLazy, NoRes)
    ELSE IF ~c.exists
    THEN QueryAbsent(<<Called("DatabaseGetExisting", TRUE), Called("CollectionGet", TRUE)>>, params)
    ELSE LET st == QueryStmt(c, params)
             got == <<Called("DatabaseGetExisting", TRUE), Called("CollectionGet", TRUE)>>
         IN IF st.err # Nil
            THEN Outcome("Query", params, got, <<>>, ErrLazy, NoRes)
            ELSE IF fail.call = "Query"
            THEN Outcome("Query", params, got \o <<Called("Query", FALSE)>>,
                         <<Stmt("query", st.q, st.args)>>, ErrLazy, NoRes)
            ELSE Outcome("Query", params, got \o <<Called("Query", TRUE)>>,
                         <<Stmt("query", st.q, st.args)>>, Nil, [Iter |-> RowsIter])

\* Explain, lines 319-350: the plan-explanation prefix, then the same clauses.
ExplainPrefix == <<Tok("EXPLAIN (VERBOSE true, FORMAT JSON)")>>

ExplainStmtDropsSortArgs(c, params) ==
    LET sel == prepareSelectClause([Schema |-> "db", Table |-> c.TableName,
                   Comment |-> "", Capped |-> c.capped, OnlyRecordIDs |-> FALSE])
        w == prepareWhereClause(0, params.Filter)
        o == prepareOrderByClause(w.p, params.Sort, c.capped)
        l == PlaceholderNext(o.p)
    IN [q |-> ExplainPrefix \o sel \o w.q \o o.q
               \o (IF params.Limit # 0 THEN <<Tok("LIMIT"), l.marker>> ELSE <<>>),
        args |-> w.args
               \o (IF params.Limit # 0 THEN <<ArgLimit(params.Limit)>> ELSE <<>>),
        err |-> w.err,
        FilterPushdown |-> w.q # <<>>,
        SortPushdown |-> o.q # <<>>,
        LimitPushdown |-> params.Limit # 0]

ExplainStmt(c, params) ==
    LET sel == prepareSelectClause([Schema |-> "db", Table |-> c.TableName,
                   Comment |-> "", Capped |-> c.capped, OnlyRecordIDs |-> FALSE])
        w == prepareWhereClause(0, params.Filter)
        o == prepareOrderByClause(w.p, params.Sort, c.capped)
        l == PlaceholderNext(o.p)
    IN [q |-> ExplainPrefix \o sel \o w.q \o o.q
               \o (IF params.Limit # 0 THEN <<Tok("LIMIT"), l.marker>> ELSE <<>>),
        args |-> w.args \o o.args
               \o (IF params.Limit # 0 THEN <<ArgLimit(params.Limit)>> ELSE <<>>),
        err |-> w.err,
        FilterPushdown |-> w.q # <<>>,
        SortPushdown |-> o.q # <<>>,
        LimitPushdown |-> params.Limit # 0]

EmptyPlan == [QueryPlanner |-> "empty", FilterPushdown |-> FALSE,
              SortPushdown |-> FALSE, LimitPushdown |-> FALSE]

\* Explain, lines 294-365.
ExplainOutcome(db, c, params, fail) ==
    IF fail.call = "DatabaseGetExisting"
    THEN Outcome("Explain", params, <<Called("DatabaseGetExisting", FALSE)>>, <<>>, Nil, EmptyPlan)
    ELSE IF ~db
    THEN Outcome("Explain", params, <<Called("DatabaseGetExisting", TRUE)>>, <<>>, Nil, EmptyPlan)
    ELSE IF fail.call = "CollectionGet"
    THEN Outcome("Explain", params,
                 <<Called("DatabaseGetExisting", TRUE), Called("CollectionGet", FALSE)>>,
                 <<>>, ErrLazy, NoRes)
    ELSE IF ~c.exists
    THEN Outcome("Explain", params,
                 <<Called("DatabaseGetExisting", TRUE), Called("CollectionGet", TRUE)>>,
                 <<>>, Nil, EmptyPlan)
    ELSE LET st == ExplainStmt(c, params)
             got == <<Called("DatabaseGetExisting", TRUE), Called("CollectionGet", TRUE)>>
         IN IF st.err # Nil
            THEN Outcome("Explain", params, got, <<>>, ErrLazy, NoRes)
            ELSE IF fail.call \in {"QueryRow", "unmarshalExplain"}
            THEN Outcome("Explain", params, got \o <<Called("QueryRow", fail.call # "QueryRow")>>,
                         <<Stmt("explain", st.q, st.args)>>, ErrLazy, NoRes)
            ELSE Outcome("Explain", params, got \o <<Called("QueryRow", TRUE)>>,
                         <<Stmt("explain", st.q, st.args)>>, Nil,
                         [QueryPlanner |-> "plan", FilterPushdown |-> st.FilterPushdown,
                          SortPushdown |-> st.SortPushdown, LimitPushdown |-> st.LimitPushdown])

(***************************************************************************)
(* Documents and rows.  A document has an identifier, a body v and the     *)
(* record identifier the handler gave it; a row keeps the record           *)
(* identifier only in a capped collection.                                 *)
(***************************************************************************)
Doc(id, v, rid) == [id |-> id, v |-> v, rid |-> rid]
RowOf(c, d) == [id |-> d.id, v |-> d.v, rid |-> IF c.capped THEN d.rid ELSE 0]
IDsOf(rs) == {r.id : r \in rs}
MinOneShort(a, b) == IF a < b THEN a - 1 ELSE b
Min(a, b) == IF a < b THEN a ELSE b

\* InsertAll, line 135.
batchSize == 100

\* The collection CollectionCreate makes: uncapped, with the default index.
IndexKey(f, desc) == [Field |-> f, Descending |-> desc]
Idx(name) ==
    [Name |-> name,
     PgIndex |-> CASE name = "_id_" -> "t_id_pg"
                   [] name = "a_idx" -> "t_a_pg"
                   [] name = "b_idx" -> "t_b_pg"
                   [] OTHER -> "t_c_pg",
     Unique |-> name \in {"_id_", "b_idx"},
     Key |-> CASE name = "_id_" -> <<IndexKey("_id", FALSE)>>
               [] name = "a_idx" -> <<IndexKey("a", FALSE)>>
               [] name = "b_idx" -> <<IndexKey("b", TRUE), IndexKey("a", FALSE)>>
               [] OTHER -> <<IndexKey("c", TRUE)>>]
NewColl == [exists |-> TRUE, TableName |-> "t", capped |-> FALSE, Indexes |-> <<Idx("_id_")>>]

\* metadata.Registry.CollectionCreate: makes the database and the collection
\* when they are absent, and leaves an existing collection as it is.
CollectionCreate(c) == IF c.exists THEN c ELSE NewColl

\* The engine's answer to one multi-row INSERT inside a transaction whose
\* view of the table is txRows: a uniqueness violation when an identifier
\* repeats in the batch or is in the table already.
EngineInsert(txRows, batch) ==
    LET ids == {batch[i].id : i \in 1..Len(batch)}
    IN IF Cardinality(ids) # Len(batch) \/ ids \cap IDsOf(txRows) # {}
       THEN UniqueViolation ELSE Nil

\* InsertAll, lines 152-159: the engine's failure as the adapter's error.
InsertExecErrorAlwaysGeneric(engineErr) == ErrLazy

InsertExecError(engineErr) ==
    IF engineErr = UniqueViolation THEN ErrorCodeInsertDuplicateID ELSE ErrLazy

\* InsertAll, lines 140-162: the batches, one statement each, until one fails.
\* rows is the transaction's view when the loop ends.
RECURSIVE InsertLoop(_, _, _, _, _, _, _)
InsertLoop(c, docs, txRows, sent, calls, n, fail) ==
    IF Len(docs) = 0
    THEN [err |-> Nil, rows |-> txRows, sent |-> sent, calls |-> calls]
    ELSE LET i == Min(batchSize, Len(docs))
             batch == SubSeq(docs, 1, i)
             rest == SubSeq(docs, i + 1, Len(docs))
             st == Stmt("insert", <<Tok("INSERT")>>, batch)
             engineErr == IF fail.call = "Exec" /\ fail.n = n THEN OtherFailure
                          ELSE EngineInsert(txRows, batch)
         IN IF fail.call = "prepareInsertStatement" /\ fail.n = n
            THEN [err |-> ErrLazy, rows |-> txRows, sent |-> sent, calls |-> calls]
            ELSE IF engineErr # Nil
            THEN [err |-> InsertExecError(engineErr), rows |-> txRows,
                  sent |-> Append(sent, st), calls |-> Append(calls, Refused("Exec", engineErr))]
            ELSE InsertLoop(c, rest, txRows \cup {RowOf(c, batch[k]) : k \in 1..Len(batch)},
                            Append(sent, st), Append(calls, Called("Exec", TRUE)), n + 1, fail)

\* pool.InTransaction: the work's changes are committed when it returns no
\* error and rolled back when it returns one.
InTransaction(before, work) ==
    [work EXCEPT !.rows = IF work.err = Nil THEN work.rows ELSE before]

\* InsertAll, lines 133-163: every batch runs on the one transaction.
InsertAllRunNoTx(c, before, docs, calls, fail) ==
    InsertLoop(c, docs, before, <<>>, calls, 1, fail)

InsertAllRun(c, before, docs, calls, fail) ==
    InTransaction(before, InsertLoop(c, docs, before, <<>>, calls, 1, fail))

Step(out, db, c, rs) == [out |-> out, db |-> db, coll |-> c, rows |-> rs]

\* InsertAll, lines 116-133: CollectionCreate has returned before
\* InTransaction begins, so what it made stays whatever the transaction does.
CreateRolledBackWithRows(before, created, err) == IF err = Nil THEN created ELSE before

CreateOutsideTransaction(before, created, err) == created

\* InsertAll, lines 115-170.
InsertAllStep(db, c, rs, params, fail) ==
    IF fail.call = "CollectionCreate"
    THEN Step(Outcome("InsertAll", params, <<Called("CollectionCreate", FALSE)>>, <<>>,
                      ErrLazy, NoRes), db, c, rs)
    ELSE LET c2 == CollectionCreate(c)
             got1 == <<Called("CollectionCreate", TRUE)>>
         IN IF fail.call = "DatabaseGetExisting"
            THEN Step(Outcome("InsertAll", params,
                              got1 \o <<Called("DatabaseGetExisting", FALSE)>>, <<>>,
                              ErrLazy, NoRes), TRUE, c2, rs)
            ELSE IF fail.call = "CollectionGet"
            THEN Step(Outcome("InsertAll", params,
                              got1 \o <<Called("DatabaseGetExisting", TRUE),
                                        Called("CollectionGet", FALSE)>>, <<>>,
                              ErrLazy, NoRes), TRUE, c2, rs)
            ELSE LET run == InsertAllRun(c2, rs, params.Docs,
                                got1 \o <<Called("DatabaseGetExisting", TRUE),
                                          Called("CollectionGet", TRUE)>>, fail)
                 IN Step(Outcome("InsertAll", params, run.calls, run.sent, run.err,
                                 IF run.err = Nil THEN [InsertAllResult |-> TRUE] ELSE NoRes),
                         CreateOutsideTransaction(db, TRUE, run.err),
                         CreateOutsideTransaction(c, c2, run.err), run.rows)

\* The engine's answer to UPDATE ... WHERE id = $2: the rows affected.
EngineUpdate(txRows, d) ==
    {IF r.id = d.id THEN [r EXCEPT !.v = d.v] ELSE r : r \in txRows}

UpdateQ == <<Tok("UPDATE"), Tok("SET"), Tok("_jsonb"), Tok("="), Ph(1),
             Tok("WHERE"), Tok("_ferretdb_id"), Tok("="), Ph(2)>>

\* The rows one UPDATE ... WHERE id = $2 affects (tag.RowsAffected()).
RowsAffected(txRows, d) == Cardinality({r \in txRows : r.id = d.id})

\* UpdateAll, line 217: res.Updated += int32(tag.RowsAffected()).
UpdatedAddCountsStatements(updated, affected) == updated + 1

UpdatedAdd(updated, affected) == updated + affected

\* UpdateAll, lines 201-220: one UPDATE per document, counting the rows affected.
RECURSIVE UpdateLoop(_, _, _, _, _, _, _)
UpdateLoop(docs, txRows, sent, calls, updated, n, fail) ==
    IF Len(docs) = 0
    THEN [err |-> Nil, rows |-> txRows, sent |-> sent, calls |-> calls, Updated |-> updated]
    ELSE LET d == Head(docs)
             st == Stmt("update", UpdateQ, <<d>>)
         IN IF fail.call = "Marshal" /\ fail.n = n
            THEN [err |-> ErrLazy, rows |-> txRows, sent |-> sent, calls |-> calls,
                  Updated |-> updated]
            ELSE IF fail.call = "Exec" /\ fail.n = n
            THEN [err |-> ErrLazy, rows |-> txRows, sent |-> Append(sent, st),
                  calls |-> Append(calls, Called("Exec", FALSE)), Updated |-> updated]
            ELSE UpdateLoop(Tail(docs), EngineUpdate(txRows, d), Append(sent, st),
                            Append(calls, Called("Exec", TRUE)),
                            UpdatedAdd(updated, RowsAffected(txRows, d)), n + 1, fail)

\* UpdateAll, lines 173-227.
UpdateAllStep(db, c, rs, params, fail) ==
    IF fail.call = "DatabaseGetExisting"
    THEN Step(Outcome("UpdateAll", params, <<Called("DatabaseGetExisting", FALSE)>>, <<>>,
                      ErrLazy, NoRes), db, c, rs)
    ELSE IF ~db
    THEN Step(Outcome("UpdateAll", params, <<Called("DatabaseGetExisting", TRUE)>>, <<>>,
                      Nil, [Updated |-> 0]), db, c, rs)
    ELSE IF fail.call = "CollectionGet"
    THEN Step(Outcome("UpdateAll", params,
                      <<Called("DatabaseGetExisting", TRUE), Called("CollectionGet", FALSE)>>,
                      <<>>, ErrLazy, NoRes), db, c, rs)
    ELSE IF ~c.exists
    THEN Step(Outcome("UpdateAll", params,
                      <<Called("DatabaseGetExisting", TRUE), Called("CollectionGet", TRUE)>>,
                      <<>>, Nil, [Updated |-> 0]), db, c, rs)
    ELSE LET run == InTransaction(rs, UpdateLoop(params.Docs, rs, <<>>,
                        <<Called("DatabaseGetExisting", TRUE), Called("CollectionGet", TRUE)>>,
                        0, 1, fail))
         IN Step(Outcome("UpdateAll", params, run.calls, run.sent, run.err,
                         IF run.err = Nil THEN [Updated |-> run.Updated] ELSE NoRes),
                 db, c, run.rows)

\* DeleteAll, lines 258-261 and 269-272: one marker and one argument per identifier.
RECURSIVE DeleteList(_, _, _)
DeleteList(p, ids, byRecordID) ==
    IF ids = <<>> THEN [q |-> <<>>, args |-> <<>>]
    ELSE LET ph == PlaceholderNext(p)
             rest == DeleteList(ph.p, Tail(ids), byRecordID)
         IN [q |-> <<ph.marker>> \o rest.q,
             args |-> <<IF byRecordID THEN ArgRecordID(Head(ids)) ELSE ArgID(Head(ids))>>
                      \o rest.args]

\* DeleteAll, lines 249-281.
DeleteStmt(params) ==
    LET byRecordID == ~params.RecordIDsNil
        l == DeleteList(0, IF byRecordID THEN params.RecordIDs ELSE params.IDs, byRecordID)
    IN [q |-> <<Tok("DELETE FROM"), Tok("WHERE"),
                Tok(IF byRecordID THEN "_ferretdb_record_id" ELSE "_ferretdb_id"),
                Tok("IN"), Tok("(")>> \o l.q \o <<Tok(")")>>,
        args |-> l.args, byRecordID |-> byRecordID]

\* The engine's answer to DELETE ... WHERE column IN (...): the rows it
\* removes.  With no identifier the text of lines 277-281 is "... IN ()",
\* which the engine's grammar rejects.
EngineDeleteFails(st) == st.args = <<>>
EngineDelete(rs, st) ==
    LET keys == {st.args[i].n : i \in 1..Len(st.args)}
    IN {r \in rs : IF st.byRecordID THEN r.rid \in keys ELSE r.id \in keys}

\* DeleteAll, lines 230-291.
DeleteAllStep(db, c, rs, params, fail) ==
    IF fail.call = "DatabaseGetExisting"
    THEN Step(Outcome("DeleteAll", params, <<Called("DatabaseGetExisting", FALSE)>>, <<>>,
                      ErrLazy, NoRes), db, c, rs)
    ELSE IF ~db
    THEN Step(Outcome("DeleteAll", params, <<Called("DatabaseGetExisting", TRUE)>>, <<>>,
                      Nil, [Deleted |-> 0]), db, c, rs)
    ELSE IF fail.call = "CollectionGet"
    THEN Step(Outcome("DeleteAll", params,
                      <<Called("DatabaseGetExisting", TRUE), Called("CollectionGet", FALSE)>>,
                      <<>>, ErrLazy, NoRes), db, c, rs)
    ELSE IF ~c.exists
    THEN Step(Outcome("DeleteAll", params,
                      <<Called("DatabaseGetExisting", TRUE), Called("CollectionGet", TRUE)>>,
                      <<>>, Nil, [Deleted |-> 0]), db, c, rs)
    ELSE LET st == DeleteStmt(params)
             got == <<Called("DatabaseGetExisting", TRUE), Called("CollectionGet", TRUE)>>
             sent == <<Stmt("delete", st.q, st.args)>>
         IN IF fail.call = "Exec"
            THEN Step(Outcome("DeleteAll", params, got \o <<Called("Exec", FALSE)>>, sent,
                              ErrLazy, NoRes), db, c, rs)
            ELSE IF EngineDeleteFails(st)
            THEN Step(Outcome("DeleteAll", params, got \o <<Refused("Exec", SyntaxError)>>, sent,
                              ErrLazy, NoRes), db, c, rs)
            ELSE Step(Outcome("DeleteAll", params, got \o <<Called("Exec", TRUE)>>, sent,
                              Nil, [Deleted |-> Cardinality(EngineDelete(rs, st))]),
                      db, c, rs \ EngineDelete(rs, st))

(***************************************************************************)
(* Statistics, maintenance and indexes.                                    *)
(***************************************************************************)
\* Stats, lines 398-401: engine-native index identifier to logical name; a
\* later index of the metadata overrides an earlier one with the same key.
RECURSIVE IndexMap(_)
IndexMap(indexes) ==
    IF indexes = <<>> THEN <<>>
    ELSE LET i == Len(indexes)
             rest == IndexMap(SubSeq(indexes, 1, i - 1))
         IN [k \in DOMAIN rest \cup {indexes[i].PgIndex} |->
                IF k = indexes[i].PgIndex THEN indexes[i].Name ELSE rest[k]]

IndexSize(name, size) == [Name |-> name, Size |-> size]

\* Stats, lines 418-440: a slice of len(indexMap) zero values, filled from
\* the front with the physical rows found in the map.
RECURSIVE FillIndexSizes(_, _, _, _)
FillIndexSizes(sizes, i, phys, indexMap) ==
    IF phys = <<>> THEN sizes
    ELSE IF Head(phys).name \notin DOMAIN indexMap
    THEN FillIndexSizes(sizes, i, Tail(phys), indexMap)
    ELSE FillIndexSizes([sizes EXCEPT ![i + 1] = IndexSize(indexMap[Head(phys).name],
                                                          Head(phys).size)],
                        i + 1, Tail(phys), indexMap)

StatsIndexSizes(indexes, phys) ==
    LET indexMap == IndexMap(indexes)
        n == Cardinality(DOMAIN indexMap)
    IN FillIndexSizes([k \in 1..n |-> IndexSize("", 0)], 0, phys, indexMap)

StatsQ == <<Tok("SELECT indexname, pg_relation_size FROM pg_indexes WHERE schemaname ="),
            Ph(1), Tok("AND tablename IN ("), Ph(2), Tok(")")>>

NoNsError(op, params, calls, code) == Outcome(op, params, calls, <<>>, code, NoRes)

\* Stats, lines 368-454.  phys is the engine's answer: the physical index rows.
StatsOutcome(db, c, rs, params, phys, fail) ==
    IF fail.call = "DatabaseGetExisting"
    THEN Outcome("Stats", params, <<Called("DatabaseGetExisting", FALSE)>>, <<>>, ErrLazy, NoRes)
    ELSE IF ~db
    THEN NoNsError("Stats", params, <<Called("DatabaseGetExisting", TRUE)>>,
                   ErrorCodeCollectionDoesNotExist)
    ELSE IF fail.call = "CollectionGet"
    THEN Outcome("Stats", params,
                 <<Called("DatabaseGetExisting", TRUE), Called("CollectionGet", FALSE)>>,
                 <<>>, ErrLazy, NoRes)
    ELSE IF ~c.exists
    THEN NoNsError("Stats", params,
                   <<Called("DatabaseGetExisting", TRUE), Called("CollectionGet", TRUE)>>,
                   ErrorCodeCollectionDoesNotExist)
    ELSE LET got == <<Called("DatabaseGetExisting", TRUE), Called("CollectionGet", TRUE)>>
             st1 == Stmt("collectionsStats", <<Tok("collectionsStats")>>, <<>>)
             st2 == Stmt("indexSizes", StatsQ, <<ArgField("db"), ArgField(c.TableName)>>)
         IN IF fail.call = "collectionsStats"
            THEN Outcome("Stats", params, got \o <<Called("collectionsStats", FALSE)>>,
                         <<st1>>, ErrLazy, NoRes)
            ELSE IF fail.call = "Query"
            THEN Outcome("Stats", params,
                         got \o <<Called("collectionsStats", TRUE), Called("Query", FALSE)>>,
                         <<st1, st2>>, ErrLazy, NoRes)
            ELSE IF fail.call = "rows"
            THEN Outcome("Stats", params,
                         got \o <<Called("collectionsStats", TRUE), Called("Query", TRUE),
                                  Called("rows", FALSE)>>,
                         <<st1, st2>>, ErrLazy, NoRes)
            ELSE Outcome("Stats", params,
                         got \o <<Called("collectionsStats", TRUE), Answered("Query", phys)>>,
                         <<st1, st2>>, Nil,
                         [CountDocuments |-> Cardinality(rs),
                          IndexSizes |-> StatsIndexSizes(c.Indexes, phys)])

\* Compact, lines 463-480: which namespace is missing.
CompactMissingAlwaysCollection(dbMissing) == ErrorCodeCollectionDoesNotExist

CompactMissing(dbMissing) ==
    IF dbMissing THEN ErrorCodeDatabaseDoesNotExist ELSE ErrorCodeCollectionDoesNotExist

\* Compact, lines 457-493.
CompactOutcome(db, c, params, fail) ==
    IF fail.call = "DatabaseGetExisting"
    THEN Outcome("Compact", params, <<Called("DatabaseGetExisting", FALSE)>>, <<>>, ErrLazy, NoRes)
    ELSE IF ~db
    THEN NoNsError("Compact", params, <<Called("DatabaseGetExisting", TRUE)>>,
                   CompactMissing(TRUE))
    ELSE IF fail.call = "CollectionGet"
    THEN Outcome("Compact", params,
                 <<Called("DatabaseGetExisting", TRUE), Called("CollectionGet", FALSE)>>,
                 <<>>, ErrLazy, NoRes)
    ELSE IF ~c.exists
    THEN NoNsError("Compact", params,
                   <<Called("DatabaseGetExisting", TRUE), Called("CollectionGet", TRUE)>>,
                   CompactMissing(FALSE))
    ELSE LET got == <<Called("DatabaseGetExisting", TRUE), Called("CollectionGet", TRUE)>>
             st == Stmt("compact",
                        <<Tok(IF params.Full THEN "VACUUM FULL ANALYZE" ELSE "VACUUM ANALYZE"),
                          Tok("db"), Tok(c.TableName)>>, <<>>)
         IN IF fail.call = "Exec"
            THEN Outcome("Compact", params, got \o <<Called("Exec", FALSE)>>, <<st>>,
                         ErrLazy, NoRes)
            ELSE Outcome("Compact", params, got \o <<Called("Exec", TRUE)>>, <<st>>, Nil,
                         [CompactResult |-> TRUE])

\* The order of index names: Go compares strings byte by byte.
NameRank(name) ==
    CASE name = "_id_" -> 1 [] name = "a_idx" -> 2 [] name = "b_idx" -> 3 [] OTHER -> 4

\* ListIndexes, lines 525-538: metadata.IndexInfo to backends.IndexInfo.
IndexInfoOf(index) ==
    [Name |-> index.Name, Unique |-> index.Unique,
     Key |-> [j \in 1..Len(index.Key) |->
                [Field |-> index.Key[j].Field, Descending |-> index.Key[j].Descending]]]

\* ListIndexes, lines 540-542: sort.Slice by name.
RECURSIVE InsertByName(_, _)
InsertByName(x, sorted) ==
    IF sorted = <<>> THEN <<x>>
    ELSE IF NameRank(x.Name) < NameRank(Head(sorted).Name) THEN <<x>> \o sorted
    ELSE <<Head(sorted)>> \o InsertByName(x, Tail(sorted))

SortByNameKeepsOrder(infos) == infos

RECURSIVE SortByName(_)
SortByName(infos) ==
    IF infos = <<>> THEN <<>> ELSE InsertByName(Head(infos), SortByName(Tail(infos)))

\* ListIndexes, lines 496-545.
ListIndexesOutcome(db, c, params, fail) ==
    IF fail.call = "DatabaseGetExisting"
    THEN Outcome("ListIndexes", params, <<Called("DatabaseGetExisting", FALSE)>>, <<>>,
                 ErrLazy, NoRes)
    ELSE IF ~db
    THEN NoNsError("ListIndexes", params, <<Called("DatabaseGetExisting", TRUE)>>,
                   ErrorCodeCollectionDoesNotExist)
    ELSE IF fail.call = "CollectionGet"
    THEN Outcome("ListIndexes", params,
                 <<Called("DatabaseGetExisting", TRUE), Called("CollectionGet", FALSE)>>,
                 <<>>, ErrLazy, NoRes)
    ELSE IF ~c.exists
    THEN NoNsError("ListIndexes", params,
                   <<Called("DatabaseGetExisting", TRUE), Called("CollectionGet", TRUE)>>,
                   ErrorCodeCollectionDoesNotExist)
    ELSE Outcome("ListIndexes", params,
                 <<Called("DatabaseGetExisting", TRUE), Called("CollectionGet", TRUE)>>,
                 <<>>, Nil,
                 [Indexes |-> SortByName([i \in 1..Len(c.Indexes) |-> IndexInfoOf(c.Indexes[i])])])

\* metadata.Registry.IndexesCreate: adds the indexes whose name the collection
\* does not have yet.
RECURSIVE IndexesCreate(_, _)
IndexesCreate(indexes, new) ==
    IF new = <<>> THEN indexes
    ELSE IF \E i \in 1..Len(indexes) : indexes[i].Name = Head(new).Name
    THEN IndexesCreate(indexes, Tail(new))
    ELSE IndexesCreate(Append(indexes, Idx(Head(new).Name)), Tail(new))

\* metadata.Registry.IndexesDrop: removes the indexes named.
IndexesDrop(indexes, names) ==
    SelectSeq(indexes, LAMBDA x : \A i \in 1..Len(names) : names[i] # x.Name)

\* CreateIndexes, lines 548-571.  The registry needs an existing collection.
CreateIndexesStep(db, c, rs, params, fail) ==
    IF fail.call = "IndexesCreate" \/ ~db \/ ~c.exists
    THEN Step(Outcome("CreateIndexes", params, <<Called("IndexesCreate", FALSE)>>, <<>>,
                      ErrLazy, NoRes), db, c, rs)
    ELSE Step(Outcome("CreateIndexes", params, <<Called("IndexesCreate", TRUE)>>, <<>>,
                      Nil, [CreateIndexesResult |-> TRUE]),
              db, [c EXCEPT !.Indexes = IndexesCreate(c.Indexes, params.Indexes)], rs)

\* DropIndexes, lines 574-581.
DropIndexesStep(db, c, rs, params, fail) ==
    IF fail.call = "IndexesDrop"
    THEN Step(Outcome("DropIndexes", params, <<Called("IndexesDrop", FALSE)>>, <<>>,
                      ErrLazy, NoRes), db, c, rs)
    ELSE Step(Outcome("DropIndexes", params, <<Called("IndexesDrop", TRUE)>>, <<>>,
                      Nil, [DropIndexesResult |-> TRUE]),
              db, IF c.exists THEN [c EXCEPT !.Indexes = IndexesDrop(c.Indexes, params.Indexes)]
                  ELSE c, rs)

(***************************************************************************)
(* The collection operations as actions.  An operation runs from a         *)
(* quiescent state (no outcome waiting) and leaves its outcome in last;    *)
(* Deliver hands the outcome to the caller.                                *)
(***************************************************************************)
SeqsUpTo(S, n) == UNION {[1..k -> S] : k \in 0..n}

FilterItems ==
    {[field |-> "a", kind |-> "eq", value |-> 7], [field |-> "b", kind |-> "eq", value |-> 8],
     [field |-> "c", kind |-> "unsupported", value |-> 0],
     [field |-> "d", kind |-> "invalid", value |-> 0]}
Filters == SeqsUpTo(FilterItems, MaxFilter)
SortItems == {[Field |-> "a", Descending |-> FALSE], [Field |-> "b", Descending |-> TRUE]}
Sorts == SeqsUpTo(SortItems, MaxSort)
Limits == {0, 3}
Comments == {"", "why"}

QueryParams == [Filter : Filters, Sort : Sorts, Limit : Limits, Comment : Comments,
                OnlyRecordIDs : BOOLEAN]
ExplainParams == [Filter : Filters, Sort : Sorts, Limit : Limits]

IDValues == {1, 999}
IDLists == SeqsUpTo(IDValues, MaxIDs)
DeleteAllParams ==
    [IDs : IDLists, RecordIDs : {<<>>}, RecordIDsNil : {TRUE}]
    \cup [IDs : {<<>>, <<1>>}, RecordIDs : IDLists, RecordIDsNil : {FALSE}]

\* The documents of one InsertAll: count identifiers from start, the one at
\* dupPos (when not 0) repeating the first.
MakeDocs(start, count, dupPos) ==
    [i \in 1..count |-> Doc(IF i = dupPos THEN start ELSE start + i - 1, 0, start + i - 1)]
Starts == {1, 150}
Counts == {0, 1} \cup {b * batchSize : b \in 1..(MaxBatches - 1)}
                 \cup {b * batchSize + 1 : b \in 1..(MaxBatches - 1)}
DupPositions == {0, 2} \cup {b * batchSize + 1 : b \in 1..(MaxBatches - 1)}
InsertAllParams ==
    {[Docs |-> MakeDocs(s, k, d)] : <<s, k, d>> \in
        {x \in Starts \X Counts \X DupPositions : x[3] <= x[2]}}
UpdateAllParams == {[Docs |-> [i \in DOMAIN ids |-> Doc(ids[i], 1, ids[i])]] : ids \in IDLists}

PhysRows == {[name |-> "t_id_pg", size |-> 8], [name |-> "t_a_pg", size |-> 16],
             [name |-> "t_new_pg", size |-> 4]}
PhysLists == {ps \in SeqsUpTo(PhysRows, MaxPhys) :
                 \A i, j \in DOMAIN ps : i # j => ps[i].name # ps[j].name}
IndexNames == {"a_idx", "b_idx"}
IndexNameLists == {ns \in SeqsUpTo(IndexNames, MaxIDs) : ns # <<>>}

Fails(calls) == {NoFail} \cup {FailAt(c) : c \in calls}
FailsN(call) == {[call |-> call, n |-> k] : k \in 1..MaxBatches}

NoOutcome == Outcome("none", NoRes, <<>>, <<>>, Nil, NoRes)
NoBefore == [db |-> FALSE, coll |-> NoColl, rows |-> {}]
Quiescent == last.op = "none"
Snapshot == [db |-> dbExists, coll |-> coll, rows |-> rows]

Reads(out) ==
    /\ last' = out
    /\ pre' = Snapshot
    /\ UNCHANGED <<dbExists, coll, rows>>

Writes(step) ==
    /\ last' = step.out
    /\ pre' = Snapshot
    /\ dbExists' = step.db
    /\ coll' = step.coll
    /\ rows' = step.rows

Query ==
    /\ Quiescent
    /\ \E params \in QueryParams :
       \E fail \in Fails({"DatabaseGetExisting", "CollectionGet", "Query"}) :
          Reads(QueryOutcome(dbExists, coll, params, fail))
    /\ UNCHANGED cursorVars

Explain ==
    /\ Quiescent
    /\ \E params \in ExplainParams :
       \E fail \in Fails({"DatabaseGetExisting", "CollectionGet", "QueryRow", "unmarshalExplain"}) :
          Reads(ExplainOutcome(dbExists, coll, params, fail))
    /\ UNCHANGED cursorVars

InsertAll ==
    /\ Quiescent
    /\ \E params \in InsertAllParams :
       \E fail \in Fails({"CollectionCreate", "DatabaseGetExisting", "CollectionGet"})
                   \cup FailsN("Exec") \cup FailsN("prepareInsertStatement") :
          Writes(InsertAllStep(dbExists, coll, rows, params, fail))
    /\ UNCHANGED cursorVars

UpdateAll ==
    /\ Quiescent
    /\ \E params \in UpdateAllParams :
       \E fail \in Fails({"DatabaseGetExisting", "CollectionGet"})
                   \cup FailsN("Exec") \cup FailsN("Marshal") :
          Writes(UpdateAllStep(dbExists, coll, rows, params, fail))
    /\ UNCHANGED cursorVars

DeleteAll ==
    /\ Quiescent
    /\ \E params \in DeleteAllParams :
       \E fail \in Fails({"DatabaseGetExisting", "CollectionGet", "Exec"}) :
          Writes(DeleteAllStep(dbExists, coll, rows, params, fail))
    /\ UNCHANGED cursorVars

Stats ==
    /\ Quiescent
    /\ \E params \in [Refresh : BOOLEAN] : \E phys \in PhysLists :
       \E fail \in Fails({"DatabaseGetExisting", "CollectionGet", "collectionsStats",
                          "Query", "rows"}) :
          Reads(StatsOutcome(dbExists, coll, rows, params, phys, fail))
    /\ UNCHANGED cursorVars

Compact ==
    /\ Quiescent
    /\ \E params \in [Full : BOOLEAN] :
       \E fail \in Fails({"DatabaseGetExisting", "CollectionGet", "Exec"}) :
          Reads(CompactOutcome(dbExists, coll, params, fail))
    /\ UNCHANGED cursorVars

ListIndexes ==
    /\ Quiescent
    /\ \E fail \in Fails({"DatabaseGetExisting", "CollectionGet"}) :
          Reads(ListIndexesOutcome(dbExists, coll, [none |-> TRUE], fail))
    /\ UNCHANGED cursorVars

CreateIndexes ==
    /\ Quiescent
    /\ \E names \in IndexNameLists : \E fail \in Fails({"IndexesCreate"}) :
          Writes(CreateIndexesStep(dbExists, coll, rows,
                    [Indexes |-> [i \in DOMAIN names |->
                        [Name |-> names[i], Key |-> Idx(names[i]).Key,
                         Unique |-> Idx(names[i]).Unique]]], fail))
    /\ UNCHANGED cursorVars

DropIndexes ==
    /\ Quiescent
    /\ \E names \in IndexNameLists : \E fail \in Fails({"IndexesDrop"}) :
          Writes(DropIndexesStep(dbExists, coll, rows, [Indexes |-> names], fail))
    /\ UNCHANGED cursorVars

Deliver ==
    /\ ~Quiescent
    /\ last' = NoOutcome
    /\ pre' = NoBefore
    /\ UNCHANGED <<dbExists, coll, rows>>
    /\ UNCHANGED cursorVars

(***************************************************************************)
(* The listCollections command of the handler.                             *)
(***************************************************************************)
ErrorCodeDatabaseNameIsInvalid == "ErrorCodeDatabaseNameIsInvalid"
ErrInvalidNamespace == "ErrInvalidNamespace"
\* The error of a command parameter of the wrong type or missing.
ErrParam == "ErrParam"

\* backends.Backend.Database: a handle, or the invalid-name error, without
\* a round trip to the engine.
ValidDatabaseNames == {"db"}
BackendDatabase(dbName) ==
    IF dbName \in ValidDatabaseNames THEN Nil ELSE ErrorCodeDatabaseNameIsInvalid

\* MsgListCollections, lines 651-657: the error for a failed h.b.Database.
DatabaseErrorAlwaysGeneric(err) == ErrLazy

DatabaseError(err) ==
    IF err = ErrorCodeDatabaseNameIsInvalid THEN ErrInvalidNamespace ELSE ErrLazy

\* MsgListCollections, lines 667-685: the document of one collection.
CollectionDoc(collection) ==
    [name |-> collection.Name, type |-> "collection",
     uuid |-> IF collection.UUID # "" THEN collection.UUID ELSE "none"]

\* common.FilterDocument: no filter matches everything, a filter on the name
\* matches the documents with that name.
FilterDocument(d, filter) == filter = "none" \/ d.name = filter

\* MsgListCollections, lines 666-704: the first batch, or the error that
\* ends the loop.
RECURSIVE ListCollectionsBatch(_, _, _, _, _)
ListCollectionsBatch(cs, req, batch, n, fail) ==
    IF cs = <<>> THEN [err |-> Nil, batch |-> batch]
    ELSE IF Head(cs).UUID = "garbage"
    THEN [err |-> ErrLazy, batch |-> <<>>]
    ELSE IF fail.call = "FilterDocument" /\ fail.n = n
    THEN [err |-> ErrLazy, batch |-> <<>>]
    ELSE LET d == CollectionDoc(Head(cs))
         IN IF ~FilterDocument(d, req.filter)
            THEN ListCollectionsBatch(Tail(cs), req, batch, n + 1, fail)
            ELSE ListCollectionsBatch(Tail(cs), req,
                     Append(batch, IF req.nameOnly = "true"
                                   THEN [name |-> d.name, type |-> "none", uuid |-> "none"]
                                   ELSE d),
                     n + 1, fail)

\* MsgListCollections, lines 621-719.  cs is what ListCollections answers.
MsgListCollectionsOutcome(req, cs, fail) ==
    IF fail.call = "Document"
    THEN Outcome("listCollections", req, <<Called("Document", FALSE)>>, <<>>, ErrLazy, NoRes)
    ELSE IF req.filter = "bad" \/ req.db = "missing" \/ req.nameOnly = "bad"
    THEN Outcome("listCollections", req, <<Called("Document", TRUE)>>, <<>>, ErrParam, NoRes)
    ELSE LET got == <<Called("Document", TRUE)>>
             dbErr == IF fail.call = "Database" THEN OtherFailure ELSE BackendDatabase(req.db)
         IN IF dbErr # Nil
            THEN Outcome("listCollections", req, got \o <<Refused("Database", dbErr)>>, <<>>,
                         DatabaseError(dbErr), NoRes)
            ELSE IF fail.call = "ListCollections"
            THEN Outcome("listCollections", req,
                         got \o <<Called("Database", TRUE), Called("ListCollections", FALSE)>>,
                         <<Stmt("listCollections", <<Tok("ListCollections")>>, <<>>)>>,
                         ErrLazy, NoRes)
            ELSE LET b == ListCollectionsBatch(cs, req, <<>>, 1, fail)
                 IN Outcome("listCollections", req,
                            got \o <<Called("Database", TRUE), Answered("ListCollections", cs)>>,
                            <<Stmt("listCollections", <<Tok("ListCollections")>>, <<>>)>>,
                            b.err,
                            IF b.err = Nil
                            THEN [id |-> 0, ns |-> req.db, firstBatch |-> b.batch, ok |-> 1]
                            ELSE NoRes)

ListCollectionsRequests ==
    [filter : {"none", "bad", "a"}, db : {"db", "d b", "missing"},
     nameOnly : {"absent", "true", "false", "bad"}]
CollectionInfos == [Name : {"a", "b"}, UUID : {"", "u1", "garbage"}]
CollectionLists == {cs \in SeqsUpTo(CollectionInfos, MaxColls) :
                       \A i, j \in DOMAIN cs : i # j => cs[i].Name # cs[j].Name}

MsgListCollections ==
    /\ Quiescent
    /\ \E req \in ListCollectionsRequests : \E cs \in CollectionLists :
       \E fail \in Fails({"Document", "Database", "ListCollections"}) \cup
                   {[call |-> "FilterDocument", n |-> k] : k \in 1..MaxColls} :
          Reads(MsgListCollectionsOutcome(req, cs, fail))
    /\ UNCHANGED cursorVars

(***************************************************************************)
(* Cursors.  cursors[c] is the c-th Cursor object made; its fields are     *)
(* those of the struct (ID, iter, closed, closeOnce as done and mu) and    *)
(* released says whether the wrapped iterator's own Close has run.         *)
(***************************************************************************)
Callers == 1..MaxCallers
Objects == 1..Len(cursors)

NoHist == [iterClose |-> 0, delete |-> 0, chanClose |-> 0, untrack |-> 0,
           closeReturned |-> FALSE, closePanic |-> FALSE,
           lastActivity |-> 0, swept |-> FALSE, idleAtSweep |-> 0]

\* Registry.NewCursor's identifier: the next value of the counter that is
\* neither zero nor in use.
RECURSIVE FreshID(_, _)
FreshID(mm, n) == IF n # 0 /\ n \notin DOMAIN mm THEN n ELSE FreshID(mm, n + 1)

\* newCursor, lines 57-74.
newCursor(id) ==
    [ID |-> id, iter |-> "iter", closed |-> FALSE, done |-> FALSE, mu |-> 0,
     released |-> FALSE, created |-> now]

\* Registry.Get: the cursor under the identifier, 0 when there is none.
RegistryGet(mm, id) == IF id \in DOMAIN mm THEN mm[id] ELSE 0

\* The cursors the registry holds.
Registered(mm) == {mm[id] : id \in DOMAIN mm}

\* Registry.delete: removes the cursor from the directory.
RegistryDelete(mm, id) == [k \in DOMAIN mm \ {id} |-> mm[k]]

\* Close, line 94: the cursor removes itself from the registry.
closeDeleteSkipped(mm, c) == mm
closeDeleteEveryCursor(mm, c) == <<>>

closeDelete(mm, c) == RegistryDelete(mm, c.ID)

\* Close, line 98: resource.Untrack takes the cursor's token off the ledger.
closeUntrackSkipped(tr, c) == tr

closeUntrack(tr, c) == tr \ {c}

\* Close, line 90: closeOnce.Do runs the function only while done is unset.
closeOnceRunsAlways(c) == TRUE

closeOnceRuns(c) == ~c.done

\* Some caller is inside the function closeOnce.Do runs for cursor c.
Closing(c) ==
    \E u \in Callers :
        ref[u] = c /\ pc[u] \in {"close_iter", "close_nil", "close_delete", "close_signal",
                                 "close_untrack"}

Bump(c, field) == hist' = [hist EXCEPT ![c][field] = @ + 1]

\* Registry.NewCursor: a fresh identifier, a new cursor, registered.
NewCursor(t) ==
    /\ pc[t] = "idle"
    /\ Len(cursors) < MaxCursors
    /\ LET id == FreshID(m, lastCursorID + 1)
           c == Len(cursors) + 1
       IN /\ lastCursorID' = id
          /\ cursors' = Append(cursors, newCursor(id))
          /\ m' = [k \in DOMAIN m \cup {id} |-> IF k = id THEN c ELSE m[k]]
          /\ tracked' = tracked \cup {c}
          /\ hist' = Append(hist, [NoHist EXCEPT !.lastActivity = now])
          /\ ref' = [ref EXCEPT ![t] = c]
    /\ UNCHANGED <<pc, loc>>
    /\ UNCHANGED <<now, collVars>>

\* Registry.Get by a handler: it holds what it finds.
Get(t) ==
    /\ pc[t] = "idle"
    /\ \E id \in 1..(MaxCursors + 1) : ref' = [ref EXCEPT ![t] = RegistryGet(m, id)]
    /\ UNCHANGED <<m, cursors, lastCursorID, tracked, pc, loc, hist>>
    /\ UNCHANGED <<now, collVars>>

\* Next, line 78, first half: the consumer loads c.iter.  Only one consumer
\* drives a cursor at a time.
NextLoad(t) ==
    /\ pc[t] = "idle"
    /\ ref[t] # 0
    /\ \A u \in Callers : ~(pc[u] \in {"next_call"} /\ ref[u] = ref[t])
    /\ pc' = [pc EXCEPT ![t] = "next_call"]
    /\ loc' = [loc EXCEPT ![t] = [iter |-> cursors[ref[t]].iter, closing |-> Closing(ref[t])]]
    /\ hist' = [hist EXCEPT ![ref[t]].lastActivity = now]
    /\ UNCHANGED <<m, cursors, lastCursorID, tracked, ref>>
    /\ UNCHANGED <<now, collVars>>

\* Next, line 78, second half: the call through the loaded reference; a nil
\* one panics.
NextCall(t) ==
    /\ pc[t] = "next_call"
    /\ pc' = [pc EXCEPT ![t] = IF loc[t].iter = "nil" THEN "panicked" ELSE "idle"]
    /\ loc' = [loc EXCEPT ![t] = [iter |-> "none", closing |-> FALSE]]
    /\ UNCHANGED <<m, cursors, lastCursorID, tracked, ref, hist>>
    /\ UNCHANGED <<now, collVars>>

\* Close, line 90: Once.Do's fast path; a caller that finds done set returns.
CloseBegin(t) ==
    /\ pc[t] = "idle"
    /\ \E c \in Objects :
          /\ ref' = [ref EXCEPT ![t] = IF closeOnceRuns(cursors[c]) THEN c ELSE 0]
          /\ pc' = [pc EXCEPT ![t] = IF closeOnceRuns(cursors[c]) THEN "close_lock" ELSE "idle"]
    /\ UNCHANGED <<m, cursors, lastCursorID, tracked, loc, hist>>
    /\ UNCHANGED <<now, collVars>>

\* Close, line 90: Once.Do's slow path takes the mutex and looks at done again.
CloseLock(t) ==
    /\ pc[t] = "close_lock"
    /\ cursors[ref[t]].mu = 0
    /\ IF closeOnceRuns(cursors[ref[t]])
       THEN /\ cursors' = [cursors EXCEPT ![ref[t]].mu = t]
            /\ pc' = [pc EXCEPT ![t] = "close_iter"]
            /\ UNCHANGED <<ref, hist>>
       ELSE /\ pc' = [pc EXCEPT ![t] = "idle"]
            /\ ref' = [ref EXCEPT ![t] = 0]
            /\ hist' = [hist EXCEPT ![ref[t]].closeReturned = TRUE]
            /\ UNCHANGED cursors
    /\ UNCHANGED <<m, lastCursorID, tracked, loc>>
    /\ UNCHANGED <<now, collVars>>

\* Close, line 91: c.iter.Close(); a nil c.iter panics.
CloseIter(t) ==
    /\ pc[t] = "close_iter"
    /\ IF cursors[ref[t]].iter = "nil"
       THEN /\ pc' = [pc EXCEPT ![t] = "panicked"]
            /\ hist' = [hist EXCEPT ![ref[t]].closePanic = TRUE]
            /\ cursors' = [cursors EXCEPT ![ref[t]].mu = 0, ![ref[t]].done = TRUE]
       ELSE /\ pc' = [pc EXCEPT ![t] = "close_nil"]
            /\ Bump(ref[t], "iterClose")
            /\ cursors' = [cursors EXCEPT ![ref[t]].released = TRUE]
    /\ UNCHANGED <<m, lastCursorID, tracked, ref, loc>>
    /\ UNCHANGED <<now, collVars>>

\* Close, line 92: c.iter = nil.
CloseNil(t) ==
    /\ pc[t] = "close_nil"
    /\ cursors' = [cursors EXCEPT ![ref[t]].iter = "nil"]
    /\ pc' = [pc EXCEPT ![t] = "close_delete"]
    /\ UNCHANGED <<m, lastCursorID, tracked, ref, loc, hist>>
    /\ UNCHANGED <<now, collVars>>

\* Close, line 94: c.r.delete(c).
CloseDelete(t) ==
    /\ pc[t] = "close_delete"
    /\ m' = closeDelete(m, cursors[ref[t]])
    /\ Bump(ref[t], "delete")
    /\ pc' = [pc EXCEPT ![t] = "close_signal"]
    /\ UNCHANGED <<cursors, lastCursorID, tracked, ref, loc>>
    /\ UNCHANGED <<now, collVars>>

\* Close, line 96: close(c.closed); closing a closed channel panics.
CloseSignal(t) ==
    /\ pc[t] = "close_signal"
    /\ IF cursors[ref[t]].closed
       THEN /\ pc' = [pc EXCEPT ![t] = "panicked"]
            /\ hist' = [hist EXCEPT ![ref[t]].closePanic = TRUE]
            /\ cursors' = [cursors EXCEPT ![ref[t]].mu = 0, ![ref[t]].done = TRUE]
       ELSE /\ pc' = [pc EXCEPT ![t] = "close_untrack"]
            /\ Bump(ref[t], "chanClose")
            /\ cursors' = [cursors EXCEPT ![ref[t]].closed = TRUE]
    /\ UNCHANGED <<m, lastCursorID, tracked, ref, loc>>
    /\ UNCHANGED <<now, collVars>>

\* Close, lines 98-99: resource.Untrack, then Once.Do sets done, unlocks and
\* returns.
CloseReturn(t) ==
    /\ pc[t] = "close_untrack"
    /\ tracked' = closeUntrack(tracked, ref[t])
    /\ hist' = [hist EXCEPT ![ref[t]].untrack = @ + 1, ![ref[t]].closeReturned = TRUE]
    /\ cursors' = [cursors EXCEPT ![ref[t]].done = TRUE, ![ref[t]].mu = 0]
    /\ pc' = [pc EXCEPT ![t] = "idle"]
    /\ ref' = [ref EXCEPT ![t] = 0]
    /\ UNCHANGED <<m, lastCursorID, loc>>
    /\ UNCHANGED <<now, collVars>>

\* The idle sweep.  The age it can measure is the one since the cursor's
\* only timestamp, created (line 66): Next (lines 77-86) records nothing.
SweepDue(c) == now - c.created > IdleBound

\* The sweep's timer fires: it calls Close on a registered cursor that is due.
Sweep(t) ==
    /\ pc[t] = "idle"
    /\ \E c \in Registered(m) :
          /\ SweepDue(cursors[c])
          /\ ref' = [ref EXCEPT ![t] = IF closeOnceRuns(cursors[c]) THEN c ELSE 0]
          /\ pc' = [pc EXCEPT ![t] = IF closeOnceRuns(cursors[c]) THEN "close_lock" ELSE "idle"]
          /\ hist' = [hist EXCEPT ![c].swept = TRUE,
                                   ![c].idleAtSweep = now - hist[c].lastActivity]
    /\ UNCHANGED <<m, cursors, lastCursorID, tracked, loc>>
    /\ UNCHANGED <<now, collVars>>

\* Time passes.
Tick ==
    /\ now < MaxTime
    /\ now' = now + 1
    /\ UNCHANGED <<m, cursors, lastCursorID, tracked, pc, ref, loc, hist>>
    /\ UNCHANGED collVars

(***************************************************************************)
(* Initial states and specifications.                                      *)
(***************************************************************************)
InitCursors ==
    /\ m = <<>>
    /\ cursors = <<>>
    /\ lastCursorID = 0
    /\ tracked = {}
    /\ pc = [t \in Callers |-> "idle"]
    /\ ref = [t \in Callers |-> 0]
    /\ loc = [t \in Callers |-> [iter |-> "none", closing |-> FALSE]]
    /\ hist = <<>>
    /\ now = 0

\* The namespaces an operation can find: no database, a database without the
\* collection, or the collection (capped or not) with its indexes and rows.
SomeRows(c) == {RowOf(c, Doc(1, 0, 1)), RowOf(c, Doc(2, 0, 2))}
Namespaces(indexLists, withRows) ==
    {[db |-> FALSE, coll |-> NoColl, rows |-> {}], [db |-> TRUE, coll |-> NoColl, rows |-> {}]}
    \cup {[db |-> TRUE, coll |-> c, rows |-> rs] :
             <<c, rs>> \in {x \in [exists : {TRUE}, TableName : {"t"}, capped : BOOLEAN,
                                   Indexes : indexLists] \X {{}, SomeRows(NewColl),
                                   SomeRows([NewColl EXCEPT !.capped = TRUE])} :
                               x[2] \in (IF withRows THEN {SomeRows(x[1])} ELSE {{}, SomeRows(x[1])})}}

InitNamespace(ns) ==
    /\ \E n \in ns : dbExists = n.db /\ coll = n.coll /\ rows = n.rows
    /\ last = NoOutcome
    /\ pre = NoBefore

InitIndexLists == {<<Idx("_id_")>>, <<Idx("_id_"), Idx("b_idx"), Idx("a_idx")>>}

CursorInit == InitCursors /\ InitNamespace({[db |-> FALSE, coll |-> NoColl, rows |-> {}]})
CursorNext ==
    \E t \in Callers :
        \/ NewCursor(t)
        \/ Get(t)
        \/ NextLoad(t)
        \/ NextCall(t)
        \/ CloseBegin(t)
        \/ CloseLock(t)
        \/ CloseIter(t)
        \/ CloseNil(t)
        \/ CloseDelete(t)
        \/ CloseSignal(t)
        \/ CloseReturn(t)
CursorSpec == CursorInit /\ [][CursorNext]_vars

\* Cursors that a client uses and abandons, with the idle sweep and the
\* clock: the first caller is the client's handler, the second the sweep's
\* goroutine.
SweepInit == CursorInit
SweepNext ==
    \/ Tick
    \/ NewCursor(1)
    \/ NextLoad(1)
    \/ NextCall(1)
    \/ Sweep(2)
    \/ CloseLock(2)
    \/ CloseIter(2)
    \/ CloseNil(2)
    \/ CloseDelete(2)
    \/ CloseSignal(2)
    \/ CloseReturn(2)
SweepSpec == SweepInit /\ [][SweepNext]_vars

QueryInit == InitCursors /\ InitNamespace(Namespaces({<<Idx("_id_")>>}, TRUE))
QueryNext == Query \/ Explain \/ DeleteAll \/ Deliver
QuerySpec == QueryInit /\ [][QueryNext]_vars

DataInit == InitCursors /\ InitNamespace(Namespaces({<<Idx("_id_")>>}, FALSE))
DataNext == InsertAll \/ UpdateAll \/ DeleteAll \/ Deliver
DataSpec == DataInit /\ [][DataNext]_vars

IndexInit == InitCursors /\ InitNamespace(Namespaces(InitIndexLists, TRUE))
IndexNext == Stats \/ Compact \/ ListIndexes \/ CreateIndexes \/ DropIndexes \/ Deliver
IndexSpec == IndexInit /\ [][IndexNext]_vars

HandlerInit == InitCursors /\ InitNamespace(Namespaces({<<Idx("_id_")>>}, TRUE))
HandlerNext == MsgListCollections \/ Deliver
HandlerSpec == HandlerInit /\ [][HandlerNext]_vars

(***************************************************************************)
(* Properties.                                                             *)
(***************************************************************************)
AllCallsOk == \A i \in DOMAIN last.calls : last.calls[i].ok
NamespaceAbsent == ~pre.db \/ ~pre.coll.exists
Occurs(tok, q) == \E i \in DOMAIN q : q[i] = tok
Markers(q) == SelectSeq(q, IsPh)

\* C1: however many callers invoke Close on one cursor, and however their
\* steps interleave, the iterator's Close, the registry's delete and the close
\* of the closed channel each run at most once and no Close panics; once any
\* caller has returned from Close each has run exactly once and the registry
\* holds no entry under the cursor's identifier.
C1_CloseExactlyOnce ==
    \A c \in Objects :
        /\ hist[c].iterClose <= 1
        /\ hist[c].delete <= 1
        /\ hist[c].chanClose <= 1
        /\ ~hist[c].closePanic
        /\ hist[c].closeReturned =>
              /\ hist[c].iterClose = 1
              /\ hist[c].delete = 1
              /\ hist[c].chanClose = 1
              /\ cursors[c].ID \notin DOMAIN m

\* C1's case: one caller has returned from Close while another, which entered
\* Close on the same cursor before it was done, is still inside Once.Do.
C1_Witness ==
    \E c \in Objects : \E t \in Callers :
        hist[c].closeReturned /\ pc[t] = "close_lock" /\ ref[t] = c

\* C2: no two cursors that are live (created, Close not completed) share an
\* identifier, every entry of the registry is a cursor filed under its own
\* identifier, and Get on the identifier of a cursor whose Close has
\* completed reports not-found.
C2_UniqueLiveIDs ==
    /\ \A c1, c2 \in Objects :
          (c1 # c2 /\ ~cursors[c1].done /\ ~cursors[c2].done) => cursors[c1].ID # cursors[c2].ID
    /\ \A id \in DOMAIN m : m[id] \in Objects /\ cursors[m[id]].ID = id
    /\ \A c \in Objects : cursors[c].done => RegistryGet(m, cursors[c].ID) = 0

\* C2's case: a cursor was closed, another one is live and registered.
C2_Witness ==
    \E c1, c2 \in Objects :
        /\ cursors[c1].done
        /\ ~cursors[c2].done
        /\ RegistryGet(m, cursors[c2].ID) = c2
        /\ \E t \in Callers : ref[t] = 0 /\ pc[t] = "idle"

\* C3: a consumer's Next that overlaps a Close of the same cursor (Close was
\* inside its one-shot function when Next loaded c.iter) never holds a nil
\* iterator reference nor one whose iterator Close has released.
C3_NextNeverSeesReleased ==
    \A t \in Callers :
        (pc[t] = "next_call" /\ loc[t].closing) =>
            (loc[t].iter # "nil" /\ ~cursors[ref[t]].released)

\* C4: InsertAll is atomic per call: when it returns an error the table holds
\* exactly the rows it held before the call (no row of any batch, the batches
\* that had executed included), and when it returns no error the table holds
\* those rows and one row per document of the call.
C4_InsertAllAtomic ==
    last.op = "InsertAll" =>
        /\ last.err # Nil => rows = pre.rows
        /\ last.err = Nil =>
              rows = pre.rows \cup {RowOf(coll, last.params.Docs[i]) : i \in DOMAIN last.params.Docs}

\* C4's case: the first batch executed and a later batch failed on a
\* duplicate identifier.
C4_Witness ==
    /\ last.op = "InsertAll"
    /\ Len(last.sent) >= 2
    /\ last.err = ErrorCodeInsertDuplicateID
    /\ rows = pre.rows

\* The documents InsertAll has sent so far hold an identifier twice, or one
\* the table held before the call.
SentDuplicate ==
    LET sentDocs == {<<b, i>> \in (DOMAIN last.sent) \X (1..batchSize) :
                        i <= Len(last.sent[b].args)}
    IN \/ \E x \in sentDocs : last.sent[x[1]].args[x[2]].id \in IDsOf(pre.rows)
       \/ \E x \in {z \in sentDocs : z[1] = Len(last.sent)} : \E y \in sentDocs :
             x # y /\ last.sent[x[1]].args[x[2]].id = last.sent[y[1]].args[y[2]].id

\* C5: in InsertAll a statement the engine refuses is the last one of the
\* call; the error is ErrorCodeInsertDuplicateID when the engine reported a
\* uniqueness violation (and then an identifier really is duplicated) and a
\* generic error of another kind for any other failure.
C5_InsertDuplicateID ==
    last.op = "InsertAll" =>
        /\ \A i \in DOMAIN last.calls :
              ~last.calls[i].ok =>
                 /\ i = Len(last.calls)
                 /\ last.calls[i].why = UniqueViolation => last.err = ErrorCodeInsertDuplicateID
                 /\ last.calls[i].why # UniqueViolation => last.err = ErrLazy
        /\ last.err = ErrorCodeInsertDuplicateID =>
              /\ last.calls[Len(last.calls)] = Refused("Exec", UniqueViolation)
              /\ SentDuplicate
        /\ Len(last.sent) = Cardinality({i \in DOMAIN last.calls : last.calls[i].call = "Exec"})

\* C5's case: a uniqueness violation in a batch that is not the last of the
\* call; the batches after it were never sent.
C5_Witness ==
    /\ last.op = "InsertAll"
    /\ last.err = ErrorCodeInsertDuplicateID
    /\ Len(last.params.Docs) > batchSize * Len(last.sent)

\* C6: an operation one of whose collaborator calls failed returns a non-nil
\* error, and makes no call after the failed one.
C6_FailuresSurfaced ==
    \A i \in DOMAIN last.calls :
        ~last.calls[i].ok => (last.err # Nil /\ i = Len(last.calls))

\* The argument a marker is bound to fits the place the marker stands in.
BoundAsUsed(q, args, params) ==
    \A i \in DOMAIN q :
        IsPh(q[i]) =>
            /\ q[i].n \in DOMAIN args
            /\ i > 1
            /\ q[i - 1] = Tok("=") =>
                  \E j \in DOMAIN params.Filter :
                      /\ q[i - 2] = Tok(params.Filter[j].field)
                      /\ args[q[i].n] = ArgVal(params.Filter[j].value)
            /\ q[i - 1] = Tok("_jsonb->") =>
                  \E j \in DOMAIN params.Sort :
                      /\ args[q[i].n] = ArgField(params.Sort[j].Field)
                      /\ q[i + 1] = Tok(IF params.Sort[j].Descending THEN "DESC" ELSE "ASC")
            /\ q[i - 1] = Tok("LIMIT") => args[q[i].n] = ArgLimit(params.Limit)
            /\ q[i - 1] \in {Tok("="), Tok("_jsonb->"), Tok("LIMIT")}

Contiguous(q, args) ==
    /\ Len(Markers(q)) = Len(args)
    /\ \A k \in DOMAIN Markers(q) : Markers(q)[k] = Ph(k)

\* C7: in every statement Query and Explain send, the markers across WHERE,
\* ORDER BY and LIMIT are $1..$n in order with no gap or repeat, n is the
\* number of arguments, each marker's argument is the value of the place the
\* marker stands in, and the LIMIT marker is there exactly when the limit is
\* not 0 and is then the last and highest one; in DeleteAll's statement the
\* IN-list is $1..$n and argument i is the i-th identifier.
C7_MarkersContiguous ==
    /\ (last.op \in {"Query", "Explain"} /\ last.sent # <<>>) =>
          LET q == last.sent[1].q
              args == last.sent[1].args
          IN /\ Contiguous(q, args)
             /\ BoundAsUsed(q, args, last.params)
             /\ Occurs(Tok("LIMIT"), q) <=> last.params.Limit # 0
             /\ last.params.Limit # 0 =>
                   /\ q[Len(q)] = Ph(Len(args))
                   /\ q[Len(q) - 1] = Tok("LIMIT")
    /\ (last.op = "DeleteAll" /\ last.sent # <<>>) =>
          LET q == last.sent[1].q
              args == last.sent[1].args
              ids == IF last.params.RecordIDsNil THEN last.params.IDs ELSE last.params.RecordIDs
          IN /\ Contiguous(q, args)
             /\ Len(args) = Len(ids)
             /\ \A i \in DOMAIN ids :
                   args[i] = IF last.params.RecordIDsNil THEN ArgID(ids[i]) ELSE ArgRecordID(ids[i])

\* C7's case: a Query statement with a pushed-down filter of two fields, a
\* sort of two fields and a limit.
C7_Witness ==
    /\ last.op = "Query"
    /\ last.sent # <<>>
    /\ Occurs(Tok("WHERE"), last.sent[1].q)
    /\ Len(last.params.Filter) = 2
    /\ Len(last.params.Sort) = 2
    /\ last.params.Limit # 0
    /\ Len(last.sent[1].args) = 5

\* C8: when the database or the collection does not exist (and the metadata
\* calls themselves succeed), Query returns an iterator over no rows and no
\* error, Explain returns an empty plan with every pushdown flag false and no
\* error, and neither sends a statement to the engine.
C8_AbsentNamespaceReads ==
    (last.op \in {"Query", "Explain"} /\ AllCallsOk /\ NamespaceAbsent) =>
        /\ last.err = Nil
        /\ last.sent = <<>>
        /\ \A i \in DOMAIN last.calls : last.calls[i].call \in {"DatabaseGetExisting", "CollectionGet"}
        /\ last.op = "Query" => last.res = [Iter |-> NilIter]
        /\ last.op = "Explain" => last.res = EmptyPlan

\* C8's case: a Query on a database that exists without the collection.
C8_Witness ==
    /\ last.op = "Query"
    /\ pre.db
    /\ ~pre.coll.exists
    /\ Len(last.calls) = 2
    /\ AllCallsOk

\* C9: Stats, Compact and ListIndexes on an absent database or collection
\* (the metadata calls themselves succeeding) return an error of a
\* does-not-exist kind and send no statement; Compact's kind is
\* ErrorCodeDatabaseDoesNotExist for a missing database and
\* ErrorCodeCollectionDoesNotExist for a missing collection.
C9_AbsentNamespaceErrors ==
    (last.op \in {"Stats", "Compact", "ListIndexes"} /\ AllCallsOk /\ NamespaceAbsent) =>
        /\ last.err \in {ErrorCodeCollectionDoesNotExist, ErrorCodeDatabaseDoesNotExist}
        /\ last.sent = <<>>
        /\ \A i \in DOMAIN last.calls : last.calls[i].call \in {"DatabaseGetExisting", "CollectionGet"}
        /\ last.res = NoRes
        /\ last.op = "Compact" =>
              last.err = IF ~pre.db THEN ErrorCodeDatabaseDoesNotExist
                         ELSE ErrorCodeCollectionDoesNotExist

\* C9's case: Compact on a missing database.
C9_Witness ==
    /\ last.op = "Compact"
    /\ ~pre.db
    /\ AllCallsOk
    /\ last.err = ErrorCodeDatabaseDoesNotExist

\* The Query parameters that go with Explain's: the same filter, sort and limit.
QueryParamsLike(params) ==
    {qp \in QueryParams : /\ qp.Filter = params.Filter
                          /\ qp.Sort = params.Sort
                          /\ qp.Limit = params.Limit}

ExplainMirrors(qp) ==
    LET qs == QueryStmt(pre.coll, qp)
    IN /\ last.sent[1].q = ExplainPrefix \o qs.q
       /\ last.sent[1].args = qs.args

ExplainFlags ==
    last.err = Nil =>
        /\ last.res.FilterPushdown = Occurs(Tok("WHERE"), last.sent[1].q)
        /\ last.res.SortPushdown = Occurs(Tok("ORDER BY"), last.sent[1].q)
        /\ last.res.LimitPushdown = (last.params.Limit # 0)

\* C10 as claimed: the statement Explain sends is the plan-explanation prefix
\* followed by the statement Query sends for the same filter, sort and limit,
\* whatever Query's comment and only-record-IDs parameters are.
C10_ExplainMirrorsAnyQuery ==
    (last.op = "Explain" /\ last.sent # <<>>) =>
        /\ \A qp \in QueryParamsLike(last.params) : ExplainMirrors(qp)
        /\ ExplainFlags

\* C10 as amended: the statement Explain sends is the plan-explanation prefix
\* followed by the statement Query sends for the same filter, sort and limit
\* with an empty comment and only-record-IDs false, with the same arguments;
\* and the plan Explain returns reports FilterPushdown, SortPushdown and
\* LimitPushdown as: a WHERE fragment is in the statement, an ORDER BY
\* fragment is in it, the limit is not 0.
C10_ExplainMirrorsPlainQuery ==
    (last.op = "Explain" /\ last.sent # <<>>) =>
        /\ \A qp \in QueryParamsLike(last.params) :
              (qp.Comment = "" /\ ~qp.OnlyRecordIDs) => ExplainMirrors(qp)
        /\ ExplainFlags

\* C10's case: an Explain that succeeded with a filter, a sort and a limit
\* pushed down.
C10_Witness ==
    /\ last.op = "Explain"
    /\ last.err = Nil
    /\ last.res.FilterPushdown
    /\ last.res.SortPushdown
    /\ last.res.LimitPushdown
    /\ Len(last.sent[1].args) >= 3

\* The rows of rs after the documents' bodies replaced those of the rows with
\* the same identifier, and the number of rows the documents matched.
AfterUpdates(rs, docs) ==
    {IF \E i \in DOMAIN docs : docs[i].id = r.id
     THEN [r EXCEPT !.v = docs[CHOOSE i \in DOMAIN docs :
                                  docs[i].id = r.id /\ \A j \in DOMAIN docs : docs[j].id = r.id => j <= i].v]
     ELSE r : r \in rs}
RECURSIVE MatchedRows(_, _)
MatchedRows(rs, docs) ==
    IF docs = <<>> THEN 0
    ELSE Cardinality({r \in rs : r.id = Head(docs).id}) + MatchedRows(rs, Tail(docs))

\* C11: UpdateAll sends one UPDATE keyed by the identifier per document, in
\* input order; on success Updated is the sum of the rows the statements
\* affected (0 for an identifier no row has) and the table shows every update;
\* when it returns an error the table is as it was before the call; on an
\* absent database or collection it returns Updated = 0, no error, and sends
\* nothing.
C11_UpdateAll ==
    last.op = "UpdateAll" =>
        /\ \A i \in DOMAIN last.sent :
              /\ last.sent[i].q = UpdateQ
              /\ last.sent[i].args = <<last.params.Docs[i]>>
        /\ (NamespaceAbsent /\ AllCallsOk) =>
              /\ last.err = Nil
              /\ last.res = [Updated |-> 0]
              /\ last.sent = <<>>
              /\ \A i \in DOMAIN last.calls : last.calls[i].call # "Exec"
              /\ rows = pre.rows
        /\ (~NamespaceAbsent /\ last.err = Nil) =>
              /\ Len(last.sent) = Len(last.params.Docs)
              /\ last.res = [Updated |-> MatchedRows(pre.rows, last.params.Docs)]
              /\ rows = AfterUpdates(pre.rows, last.params.Docs)
        /\ ~AllCallsOk => last.err # Nil
        /\ last.err # Nil => (rows = pre.rows /\ last.res = NoRes)

\* C11's case: UpdateAll of two documents succeeded, one matching a row whose
\* body it changed and one matching no row.
C11_Witness ==
    /\ last.op = "UpdateAll"
    /\ last.err = Nil
    /\ Len(last.sent) = 2
    /\ last.res = [Updated |-> 1]
    /\ rows # pre.rows

\* The rows a DeleteAll addresses: by record identifier when RecordIDs is
\* supplied, otherwise by document identifier.
Addressed(rs, params) ==
    IF params.RecordIDsNil
    THEN {r \in rs : \E i \in DOMAIN params.IDs : params.IDs[i] = r.id}
    ELSE {r \in rs : \E i \in DOMAIN params.RecordIDs : params.RecordIDs[i] = r.rid}
NoInjectedFailure == \A i \in DOMAIN last.calls : last.calls[i].why # OtherFailure
DeleteAllRemovesAddressed ==
    /\ last.err = Nil
    /\ last.res = [Deleted |-> Cardinality(Addressed(pre.rows, last.params))]
    /\ rows = pre.rows \ Addressed(pre.rows, last.params)

\* C12: DeleteAll on an existing collection, the registry and the connection
\* working, removes exactly the rows addressed in the caller's mode and
\* returns their number as Deleted, for every list of identifiers, the empty
\* one included; on an absent database or collection it returns Deleted = 0
\* with no error.
C12_DeleteAllAnyList ==
    last.op = "DeleteAll" =>
        /\ (NamespaceAbsent /\ AllCallsOk) =>
              (last.err = Nil /\ last.res = [Deleted |-> 0] /\ rows = pre.rows)
        /\ (~NamespaceAbsent /\ NoInjectedFailure) => DeleteAllRemovesAddressed

\* C12 for the lists that have an identifier: the same statement restricted to
\* a non-empty list in the mode chosen.
C12_DeleteAllNonEmptyList ==
    last.op = "DeleteAll" =>
        /\ (NamespaceAbsent /\ AllCallsOk) =>
              (last.err = Nil /\ last.res = [Deleted |-> 0] /\ rows = pre.rows)
        /\ (~NamespaceAbsent /\ NoInjectedFailure
              /\ (IF last.params.RecordIDsNil THEN last.params.IDs ELSE last.params.RecordIDs) # <<>>)
              => DeleteAllRemovesAddressed
        /\ last.err # Nil => rows = pre.rows

\* C12's case for a list with identifiers: DeleteAll by record identifier
\* removed a row while the document identifiers it was also given were ignored.
C12_NonEmptyWitness ==
    /\ last.op = "DeleteAll"
    /\ ~last.params.RecordIDsNil
    /\ last.res = [Deleted |-> 1]
    /\ last.params.IDs # <<>>
    /\ Cardinality(rows) = 1

\* The physical index rows the engine answered a successful Stats with.
StatsPhys == last.calls[Len(last.calls)].out
InMetadata(name) == \E x \in DOMAIN pre.coll.Indexes : pre.coll.Indexes[x].PgIndex = name
EntryOf(row, entry) ==
    /\ entry.Size = row.size
    /\ \E x \in DOMAIN pre.coll.Indexes :
          pre.coll.Indexes[x].PgIndex = row.name /\ pre.coll.Indexes[x].Name = entry.Name

\* C13: a successful Stats returns in IndexSizes one entry (logical name,
\* size) for each physical index row whose engine-native identifier is in the
\* collection's index metadata and nothing else: as many entries as such
\* rows, none with an empty name, each the entry of a physical row.
C13_IndexSizesExact ==
    (last.op = "Stats" /\ last.err = Nil) =>
        LET sizes == last.res.IndexSizes
            found == {j \in DOMAIN StatsPhys : InMetadata(StatsPhys[j].name)}
        IN /\ Len(sizes) = Cardinality(found)
           /\ \A j \in found : \E k \in DOMAIN sizes : EntryOf(StatsPhys[j], sizes[k])
           /\ \A k \in DOMAIN sizes :
                 /\ sizes[k].Name # ""
                 /\ \E j \in found : EntryOf(StatsPhys[j], sizes[k])

\* C14: a successful ListIndexes returns as many indexes as the metadata
\* holds, each metadata index once with its name, uniqueness flag and key
\* pairs in their order, by ascending name.
C14_ListIndexesSorted ==
    (last.op = "ListIndexes" /\ last.err = Nil) =>
        LET out == last.res.Indexes
            meta == pre.coll.Indexes
        IN /\ Len(out) = Len(meta)
           /\ \A x \in DOMAIN meta :
                 Cardinality({k \in DOMAIN out :
                     /\ out[k].Name = meta[x].Name
                     /\ out[k].Unique = meta[x].Unique
                     /\ Len(out[k].Key) = Len(meta[x].Key)
                     /\ \A j \in DOMAIN meta[x].Key :
                           /\ out[k].Key[j].Field = meta[x].Key[j].Field
                           /\ out[k].Key[j].Descending = meta[x].Key[j].Descending}) = 1
           /\ \A k, l \in DOMAIN out : k < l => NameRank(out[k].Name) < NameRank(out[l].Name)

\* C14's case: the metadata holds three indexes with a later one whose name
\* sorts before an earlier one's, and ListIndexes has returned them.
C14_Witness ==
    /\ last.op = "ListIndexes"
    /\ last.err = Nil
    /\ Len(last.res.Indexes) = 3
    /\ \E x, y \in DOMAIN pre.coll.Indexes :
          x < y /\ NameRank(pre.coll.Indexes[y].Name) < NameRank(pre.coll.Indexes[x].Name)

\* C15: a cursor is open, then closed, and closed is terminal: a cursor whose
\* Close has completed stays closed (done set, channel closed, no iterator)
\* and out of the registry, and a cursor leaves the registry only by the
\* delete step of a Close of that cursor.
C15_OpenThenClosed ==
    [][\A c \in Objects :
          /\ cursors[c].done =>
                /\ cursors'[c].done /\ cursors'[c].closed /\ cursors'[c].iter = "nil"
                /\ c \notin Registered(m')
          /\ (c \in Registered(m) /\ c \notin Registered(m')) =>
                \E t \in Callers :
                    ref[t] = c /\ pc[t] = "close_delete" /\ pc'[t] = "close_signal"]_vars

\* C15's case: one cursor's Close has completed, and after it a cursor was
\* created that is open and registered while a caller closes it.
C15_Witness ==
    \E c1, c2 \in Objects :
        /\ cursors[c1].done
        /\ c1 < c2
        /\ c2 \in Registered(m)
        /\ \E t \in Callers : ref[t] = c2 /\ pc[t] = "close_delete"

DatabaseRefusedWith(why) ==
    \E i \in DOMAIN last.calls :
        last.calls[i].call = "Database" /\ ~last.calls[i].ok /\ last.calls[i].why = why
NoListCollections ==
    /\ \A i \in DOMAIN last.calls : last.calls[i].call # "ListCollections"
    /\ last.sent = <<>>

\* C17: in listCollections a database handle refused with
\* ErrorCodeDatabaseNameIsInvalid gives ErrInvalidNamespace, and only that
\* does; a handle refused for any other reason gives the generic error; in
\* both cases ListCollections is not called.
C17_InvalidNamespace ==
    last.op = "listCollections" =>
        /\ DatabaseRefusedWith(ErrorCodeDatabaseNameIsInvalid) =>
              (last.err = ErrInvalidNamespace /\ NoListCollections /\ last.res = NoRes)
        /\ DatabaseRefusedWith(OtherFailure) =>
              (last.err = ErrLazy /\ NoListCollections /\ last.res = NoRes)
        /\ last.err = ErrInvalidNamespace => DatabaseRefusedWith(ErrorCodeDatabaseNameIsInvalid)

\* C17's case: listCollections with well-formed parameters named a database
\* whose name is invalid, and has returned.
C17_Witness ==
    /\ last.op = "listCollections"
    /\ last.params.db = "d b"
    /\ last.params.filter = "a"
    /\ Len(last.calls) = 2
    /\ last.err # Nil

BatchesOf(K) == (K + batchSize - 1) \div batchSize
ReachedTransaction ==
    \A i \in DOMAIN last.calls :
        last.calls[i].call \in {"CollectionCreate", "DatabaseGetExisting", "CollectionGet"}
            => last.calls[i].ok

\* C19: InsertAll sends its K documents in consecutive batches in input
\* order, the i-th statement carrying documents (i-1)*100+1 .. min(i*100, K):
\* every batch but the last of the call has 100 documents and the last has 1
\* to 100; a call that succeeds has sent K/100 rounded up statements, none
\* for K = 0, and their batches concatenated are the input.
C19_InsertAllBatches ==
    (last.op = "InsertAll" /\ ReachedTransaction) =>
        LET docs == last.params.Docs
            K == Len(docs)
        IN /\ Len(last.sent) <= BatchesOf(K)
           /\ \A i \in DOMAIN last.sent :
                 /\ last.sent[i].kind = "insert"
                 /\ last.sent[i].args = SubSeq(docs, (i - 1) * batchSize + 1,
                                               IF i * batchSize < K THEN i * batchSize ELSE K)
                 /\ Len(last.sent[i].args) >= 1
                 /\ Len(last.sent[i].args) <= batchSize
                 /\ i < BatchesOf(K) => Len(last.sent[i].args) = batchSize
           /\ last.err = Nil => Len(last.sent) = BatchesOf(K)
           /\ K = 0 => (last.err = Nil /\ last.sent = <<>>)

\* C19's case: an InsertAll of two full batches and one document more has
\* succeeded.
C19_Witness ==
    /\ last.op = "InsertAll"
    /\ last.err = Nil
    /\ Len(last.params.Docs) = 2 * batchSize + 1
    /\ Len(last.sent) = 3
    /\ Len(last.sent[3].args) = 1

\* Caller t's step is a Get that hands it a cursor it did not hold.
GetReturns(t) ==
    /\ pc[t] = "idle" /\ pc'[t] = "idle"
    /\ cursors' = cursors
    /\ ref'[t] # 0 /\ ref'[t] # ref[t]

\* C20: whatever Close is doing to a cursor, a Get that returns the cursor
\* returns it holding an iterator that is not nil and has not been released.
C20_GetReturnsLiveIterator ==
    [][\A t \in Callers :
          GetReturns(t) => (cursors[ref'[t]].iter # "nil" /\ ~cursors[ref'[t]].released)]_vars

\* C21: in every state in which a cursor's closed channel is closed, the
\* cursor's iterator has been released (its Close has run and c.iter is nil)
\* and the registry holds no entry for the cursor.
C21_ClosedSignalLast ==
    \A c \in Objects :
        cursors[c].closed =>
            /\ cursors[c].released
            /\ cursors[c].iter = "nil"
            /\ hist[c].iterClose = 1
            /\ c \notin Registered(m)
            /\ cursors[c].ID \notin DOMAIN m

\* C21's case: the closed channel of a cursor has just been closed by a Close
\* that has not returned yet, while another cursor is still registered.
C21_Witness ==
    \E c \in Objects : \E t \in Callers :
        /\ cursors[c].closed
        /\ pc[t] = "close_untrack" /\ ref[t] = c
        /\ Registered(m) # {}

\* The call failed in a batch: a statement of the call was refused.
FailedInBatch ==
    /\ last.err # Nil
    /\ last.sent # <<>>
    /\ ~last.calls[Len(last.calls)].ok
    /\ last.calls[Len(last.calls)].call = "Exec"

\* C22: after an InsertAll on a database or collection that was absent has
\* failed in a batch, the database and the collection exist and the
\* collection has none of the call's rows.
C22_CollectionOutlivesFailedInsert ==
    (last.op = "InsertAll" /\ NamespaceAbsent /\ FailedInBatch) =>
        /\ dbExists
        /\ coll.exists
        /\ coll = NewColl
        /\ rows = {}
        /\ \A i \in DOMAIN last.params.Docs : last.params.Docs[i].id \notin IDsOf(rows)

\* C22's case: an InsertAll on an absent collection whose second batch the
\* engine refused for a duplicate identifier.
C22_Witness ==
    /\ last.op = "InsertAll"
    /\ ~pre.coll.exists
    /\ last.err = ErrorCodeInsertDuplicateID
    /\ Len(last.sent) = 2

====
